---------------------------- MODULE Spec2Model ----------------------------
(***************************************************************************)
(* A model of src/perceptron.c: step_function, perceptron and main.       *)
(*                                                                         *)
(* A C float is modelled as a record [m, e] standing for m * 2^e, kept    *)
(* canonical (m odd, or m = 0 and e = 0) and with |m| < 2^24, the         *)
(* precision of IEEE-754 binary32.  Addition and multiplication compute    *)
(* the exact result and round it to nearest, ties to even, as the         *)
(* hardware does.  The values used are far from the exponent limits, so   *)
(* infinities, NaN and subnormals are outside the model; the sign of zero  *)
(* is not kept because x >= 0 holds for both zeros.                        *)
(***************************************************************************)
EXTENDS Integers, Sequences, FiniteSets, TLC

VARIABLES
    driver,      \* "main": the program's own main; "lib": any other caller
    mpc,         \* the caller's position
    inputs,      \* the caller's array passed as inputs  (0-indexed)
    weights,     \* the caller's array passed as weights (0-indexed)
    bias,        \* argument bias
    num_inputs,  \* argument num_inputs
    pc,          \* position inside perceptron
    i,           \* the loop index
    sum,         \* the accumulator
    output,      \* the value perceptron returned: NoValue before, Value(v) after
    reads,       \* history: the indices the loop body has read, in order
    applied,     \* history: the arguments step_function was applied to, in order
    oob,         \* history: an element outside an array has been read
    log,         \* history: the completed calls, in order
    stdout,      \* the lines printed
    exitcode     \* the exit code of main: NoValue before it exits, Value(c) after

vars == << driver, mpc, inputs, weights, bias, num_inputs, pc, i, sum, output,
           reads, applied, oob, log, stdout, exitcode >>

frame == << pc, i, sum, output, reads, applied, oob >>
args == << inputs, weights, bias, num_inputs >>

-----------------------------------------------------------------------------
(* Bounds of the model *)

MaxLen == 2          \* the longest array a caller other than main passes

\* a value not there yet, and a value that is
NoValue == << >>

Value(v) == << v >>

-----------------------------------------------------------------------------
(* binary32 arithmetic *)

MantBits == 24

Pow2(k) == 2 ^ k

Abs(n) == IF n < 0 THEN -n ELSE n

Sgn(n) == IF n < 0 THEN -1 ELSE 1

MinOf(a, b) == IF a < b THEN a ELSE b

MaxOf(a, b) == IF a > b THEN a ELSE b

RECURSIVE Norm(_, _)
Norm(m, e) ==
    IF m = 0 THEN [m |-> 0, e |-> 0]
    ELSE IF m % 2 = 0 THEN Norm(m \div 2, e + 1)
    ELSE [m |-> m, e |-> e]

\* the number of low bits of a that do not fit the significand
RECURSIVE Excess(_)
Excess(a) == IF a < Pow2(MantBits) THEN 0 ELSE 1 + Excess(a \div 2)

\* m * 2^e rounded to the nearest float, ties to even
RoundFloat(m, e) ==
    LET a == Abs(m)
        s == Excess(a)
        q == a \div Pow2(s)
        r == a % Pow2(s)
        half == IF s = 0 THEN 0 ELSE Pow2(s - 1)
        up == s > 0 /\ (r > half \/ (r = half /\ q % 2 = 1))
    IN  Norm(Sgn(m) * (IF up THEN q + 1 ELSE q), e + s)

FAdd(x, y) ==
    LET e == MinOf(x.e, y.e)
    IN  RoundFloat(x.m * Pow2(x.e - e) + y.m * Pow2(y.e - e), e)

FMul(x, y) == RoundFloat(x.m * y.m, x.e + y.e)

\* the negation of a float
FNeg(x) == [m |-> -x.m, e |-> x.e]

\* x <= y, x < y on floats (exact)
FLe(x, y) ==
    LET e == MinOf(x.e, y.e)
    IN  x.m * Pow2(x.e - e) <= y.m * Pow2(y.e - e)

FLt(x, y) == FLe(x, y) /\ x # y

\* the largest k with num * 2^k < den * 2^24  (num > 0)
RECURSIVE ScaleOf(_, _, _)
ScaleOf(num, den, k) ==
    IF num * Pow2(k + 1) < den * Pow2(MantBits) THEN ScaleOf(num, den, k + 1) ELSE k

\* the float a decimal constant num/den of the source denotes
FloatOf(num, den) ==
    IF num = 0 THEN [m |-> 0, e |-> 0]
    ELSE LET a == Abs(num)
             k == ScaleOf(a, den, 0)
             n == a * Pow2(k)
             q == n \div den
             r == n % den
             up == 2 * r > den \/ (2 * r = den /\ q % 2 = 1)
         IN  Norm(Sgn(num) * (IF up THEN q + 1 ELSE q), -k)

FZero == FloatOf(0, 1)

\* the conversion of a float to int: towards zero
Truncate(x) ==
    Sgn(x.m) * (IF x.e >= 0 THEN Abs(x.m) * Pow2(x.e) ELSE Abs(x.m) \div Pow2(-x.e))

-----------------------------------------------------------------------------
(* printf's %d *)

DigitChar(d) ==
    CASE d = 0 -> "0" [] d = 1 -> "1" [] d = 2 -> "2" [] d = 3 -> "3" [] d = 4 -> "4"
      [] d = 5 -> "5" [] d = 6 -> "6" [] d = 7 -> "7" [] d = 8 -> "8" [] d = 9 -> "9"

RECURSIVE Digits(_)
Digits(n) == IF n < 10 THEN DigitChar(n) ELSE Digits(n \div 10) \o DigitChar(n % 10)

FormatD(n) == IF n < 0 THEN "-" \o Digits(-n) ELSE Digits(n)

-----------------------------------------------------------------------------
(* The values callers other than main pass *)

InputVals == { FloatOf(0, 1), FloatOf(1, 1), FloatOf(2, 1) }

WeightVals == { FloatOf(-5, 10), FloatOf(5, 10) }

BiasVals == { FloatOf(-1, 1), FloatOf(-1, 10), FloatOf(0, 1), FloatOf(1, 10) }

\* what a read outside an array may yield
GarbageVals == { FloatOf(-2, 1), FloatOf(2, 1) }

Counts == -1 .. MaxLen + 1

ArraysOf(S) == UNION { [0 .. n - 1 -> S] : n \in 0 .. MaxLen }

Length(a) == Cardinality(DOMAIN a)

\* the two calls a caller other than main makes
CallNumbers == {1, 2}

-----------------------------------------------------------------------------
(* step_function and the pieces of perceptron *)

step_function_strict(x) == IF x.m > 0 THEN 1 ELSE 0

step_function(x) == IF x.m >= 0 THEN 1 ELSE 0

\* the loop condition  i < num_inputs
LoopCondInclusive(idx, n) == idx <= n

LoopCond(idx, n) == idx < n

\* sum += a * b
AccumulateSubtract(s, a, b) == FAdd(s, FNeg(FMul(a, b)))

AccumulateNoProduct(s, a, b) == FAdd(s, a)

Accumulate(s, a, b) == FAdd(s, FMul(a, b))

NextIndexSkip(idx) == idx + 2

\* i++
NextIndex(idx) == idx + 1

-----------------------------------------------------------------------------
(* main's locals *)

MainInputs == [k \in 0 .. 1 |-> IF k = 0 THEN FloatOf(0, 1) ELSE FloatOf(1, 1)]

MainWeights == [k \in 0 .. 1 |-> IF k = 0 THEN FloatOf(5, 10) ELSE FloatOf(-5, 10)]

MainBias == FloatOf(1, 10)

MainCount == 2

InitFrame ==
    /\ pc = "entry"
    /\ i = 0           \* the two locals are written before they are read;
    /\ sum = FZero     \* what their stack slots hold before is of no effect
    /\ output = NoValue
    /\ reads = << >>
    /\ applied = << >>
    /\ oob = FALSE
    /\ log = << >>
    /\ stdout = << >>
    /\ exitcode = NoValue

InitMain ==
    /\ driver = "main"
    /\ mpc = "line37"
    /\ inputs = MainInputs
    /\ weights = MainWeights
    /\ bias = MainBias
    /\ num_inputs = MainCount

InitLib ==
    /\ driver = "lib"
    /\ mpc = "caller"
    /\ inputs \in ArraysOf(InputVals)
    /\ weights \in ArraysOf(WeightVals)
    /\ bias \in BiasVals
    /\ num_inputs \in Counts

Init == (InitMain \/ InitLib) /\ InitFrame

-----------------------------------------------------------------------------
(* perceptron *)

\* line 25, and the loop's  int i = 0
PerceptronEnterStatic ==
    /\ pc = "entry"
    /\ sum' = FAdd(sum, bias)
    /\ i' = 0
    /\ pc' = "loop"
    /\ UNCHANGED << driver, mpc, args, output, reads, applied, oob, log, stdout, exitcode >>

PerceptronEnterZero ==
    /\ pc = "entry"
    /\ sum' = FZero
    /\ i' = 0
    /\ pc' = "loop"
    /\ UNCHANGED << driver, mpc, args, output, reads, applied, oob, log, stdout, exitcode >>

PerceptronEnter ==
    /\ pc = "entry"
    /\ sum' = bias
    /\ i' = 0
    /\ pc' = "loop"
    /\ UNCHANGED << driver, mpc, args, output, reads, applied, oob, log, stdout, exitcode >>

InBounds(idx) == idx \in DOMAIN inputs /\ idx \in DOMAIN weights

\* lines 26-27, both reads inside the arrays
LoopBody ==
    /\ pc = "loop"
    /\ LoopCond(i, num_inputs)
    /\ InBounds(i)
    /\ sum' = Accumulate(sum, inputs[i], weights[i])
    /\ i' = NextIndex(i)
    /\ reads' = Append(reads, i)
    /\ UNCHANGED << driver, mpc, args, pc, output, applied, oob, log, stdout, exitcode >>

\* lines 26-27, a read past the end of an array: undefined behaviour.
\* Outcome 1: the read yields whatever lies behind the array.
LoopBodyOutOfBounds ==
    /\ pc = "loop"
    /\ LoopCond(i, num_inputs)
    /\ ~InBounds(i)
    /\ \E a \in (IF i \in DOMAIN inputs THEN {inputs[i]} ELSE GarbageVals),
          b \in (IF i \in DOMAIN weights THEN {weights[i]} ELSE GarbageVals) :
            sum' = Accumulate(sum, a, b)
    /\ i' = NextIndex(i)
    /\ reads' = Append(reads, i)
    /\ oob' = TRUE
    /\ UNCHANGED << driver, mpc, args, pc, output, applied, log, stdout, exitcode >>

\* Outcome 2: the read faults and the process is killed.
LoopBodyFault ==
    /\ pc = "loop"
    /\ LoopCond(i, num_inputs)
    /\ ~InBounds(i)
    /\ pc' = "crashed"
    /\ reads' = Append(reads, i)
    /\ oob' = TRUE
    /\ UNCHANGED << driver, mpc, args, i, sum, output, applied, log, stdout, exitcode >>

\* line 26, the condition is false
LoopExit ==
    /\ pc = "loop"
    /\ ~LoopCond(i, num_inputs)
    /\ pc' = "ret"
    /\ UNCHANGED << driver, mpc, args, i, sum, output, reads, applied, oob, log,
                    stdout, exitcode >>

CallRecord(out) ==
    [inputs |-> inputs, weights |-> weights, bias |-> bias, num_inputs |-> num_inputs,
     sum |-> sum, output |-> out, oob |-> oob]

\* line 29; in main the value is stored in output (line 37)
PerceptronReturnSum ==
    /\ pc = "ret"
    /\ output' = Value(Truncate(sum))
    /\ applied' = applied
    /\ log' = Append(log, CallRecord(Truncate(sum)))
    /\ pc' = "done"
    /\ mpc' = IF driver = "main" THEN "line38" ELSE mpc
    /\ UNCHANGED << driver, args, i, sum, reads, oob, stdout, exitcode >>

PerceptronReturn ==
    /\ pc = "ret"
    /\ output' = Value(step_function(sum))
    /\ applied' = Append(applied, sum)
    /\ log' = Append(log, CallRecord(step_function(sum)))
    /\ pc' = "done"
    /\ mpc' = IF driver = "main" THEN "line38" ELSE mpc
    /\ UNCHANGED << driver, args, i, sum, reads, oob, stdout, exitcode >>

-----------------------------------------------------------------------------
(* main *)

OutputLine(v) == "Perceptron Output: " \o FormatD(v)

\* line 38
MainPrint ==
    /\ driver = "main"
    /\ mpc = "line38"
    /\ stdout' = Append(stdout, OutputLine(output[1]))
    /\ mpc' = "line40"
    /\ UNCHANGED << driver, args, frame, log, exitcode >>

\* line 40
MainExit ==
    /\ driver = "main"
    /\ mpc = "line40"
    /\ exitcode' = Value(0)
    /\ mpc' = "exited"
    /\ UNCHANGED << driver, args, frame, log, stdout >>

-----------------------------------------------------------------------------
(* Any other caller: calls perceptron, and once it has returned calls it   *)
(* again, with the same arguments or with one input raised.  The locals of *)
(* the finished call are left where they were (a stale stack frame).       *)

NewCall ==
    /\ pc' = "entry"
    /\ output' = NoValue
    /\ reads' = << >>
    /\ applied' = << >>
    /\ oob' = FALSE
    /\ UNCHANGED << driver, mpc, weights, bias, num_inputs, i, sum, log, stdout, exitcode >>

CallAgain ==
    /\ driver = "lib"
    /\ pc = "done"
    /\ Len(log) < Cardinality(CallNumbers)
    /\ inputs' = inputs
    /\ NewCall

CallRaised ==
    /\ driver = "lib"
    /\ pc = "done"
    /\ Len(log) < Cardinality(CallNumbers)
    /\ \E k \in DOMAIN inputs, v \in InputVals :
          /\ FLt(inputs[k], v)
          /\ inputs' = [inputs EXCEPT ![k] = v]
    /\ NewCall

-----------------------------------------------------------------------------

Next ==
    \/ PerceptronEnter
    \/ LoopBody
    \/ LoopBodyOutOfBounds
    \/ LoopBodyFault
    \/ LoopExit
    \/ PerceptronReturn
    \/ MainPrint
    \/ MainExit
    \/ CallAgain
    \/ CallRaised

Spec == Init /\ [][Next]_vars

\* Termination is checked with the arrays of other callers holding one value
\* each: which steps are taken depends on the count and the lengths only, never
\* on the values.
InitTerm ==
    /\ InitMain \/ ( /\ InitLib
                     /\ bias = MainBias
                     /\ \A k \in DOMAIN inputs : inputs[k] = FloatOf(1, 1)
                     /\ \A k \in DOMAIN weights : weights[k] = FloatOf(5, 10) )
    /\ InitFrame

\* the processor keeps executing the program
TermSpec == InitTerm /\ [][Next]_vars /\ WF_vars(Next)

-----------------------------------------------------------------------------
(* What the claims speak of *)

\* a float in units of 2^-27 (exact for the values of the model)
Units(x) == x.m * Pow2(x.e + 27)

\* bias + the sum over k in 0..n-1 of in[k] * w[k], over the reals, in units of 2^-27
RECURSIVE ExactSum(_, _, _, _)
ExactSum(in, w, b, n) ==
    IF n <= 0 THEN Units(b)
    ELSE ExactSum(in, w, b, n - 1)
           + in[n - 1].m * w[n - 1].m * Pow2(in[n - 1].e + w[n - 1].e + 27)

\* the same sum in single precision, left to right
RECURSIVE FloatSum(_, _, _, _)
FloatSum(in, w, b, n) ==
    IF n <= 0 THEN b
    ELSE FAdd(FloatSum(in, w, b, n - 1), FMul(in[n - 1], w[n - 1]))

Threshold(u) == IF u >= 0 THEN 1 ELSE 0

\* << 0, 1, ..., n-1 >>
UpTo(n) == [k \in 1 .. n |-> k - 1]

ShortestLength == MinOf(Length(inputs), Length(weights))

CountMatches == num_inputs = Length(inputs) /\ num_inputs = Length(weights)

CountInBounds == num_inputs <= ShortestLength

RecordInBounds(r) == r.num_inputs <= MinOf(Length(r.inputs), Length(r.weights))

Returned == pc = "done"

\* C1: with a count N >= 0 and both vectors of length N, the accumulator starts
\* at bias, each index 0..N-1 contributes its product exactly once, and the value
\* returned is the threshold of bias + sum of inputs[k] * weights[k], which is
\* the final accumulator.
C1_WeightedSumThresholded ==
    CountMatches =>
        /\ pc = "loop" => sum = FloatSum(inputs, weights, bias, i) /\ reads = UpTo(i)
        /\ pc \in {"ret", "done"} =>
              /\ sum = FloatSum(inputs, weights, bias, num_inputs)
              /\ reads = UpTo(num_inputs)
        /\ Returned =>
              /\ applied = << sum >>
              /\ output = Value(Threshold(sum.m))
              /\ output = Value(Threshold(ExactSum(inputs, weights, bias, num_inputs)))

C1_Witness ==
    /\ driver = "lib" /\ Returned /\ CountMatches /\ num_inputs = 2
    /\ inputs[0] # FZero /\ inputs[1] # FZero
    /\ bias = FloatOf(1, 10)
    /\ output = Value(1)

C3_PositiveOnly ==
    Returned => (output = Value(1) <=> sum.m > 0) /\ (output = Value(0) <=> sum.m <= 0)

\* C4: with a count that matches the lengths of both vectors the value returned
\* is exactly 0 or exactly 1, and nothing is returned before the call ends.
C4_ZeroOrOne ==
    CountMatches =>
        /\ Returned => output \in {Value(0), Value(1)}
        /\ ~Returned => output = NoValue
        /\ \A n \in DOMAIN log : log[n].output \in {0, 1}

C4_Witness ==
    /\ Returned /\ CountMatches /\ num_inputs = 2
    /\ output = Value(0)
    /\ sum # FloatOf(-1, 1)

RaisedAt(r1, r2, k) ==
    /\ r1.num_inputs = r2.num_inputs
    /\ r1.weights = r2.weights
    /\ r1.bias = r2.bias
    /\ DOMAIN r1.inputs = DOMAIN r2.inputs
    /\ k \in DOMAIN r1.inputs /\ k \in DOMAIN r1.weights
    /\ \A j \in DOMAIN r1.inputs : j # k => r1.inputs[j] = r2.inputs[j]
    /\ FLe(r1.inputs[k], r2.inputs[k])
    /\ r1.weights[k].m > 0

\* C6: monotonicity: two calls with the same count, weights and bias and the same
\* inputs but for one index k with weights[k] > 0 where the second input is not
\* smaller: the second sum is not smaller, and a result 1 stays 1.
C6_Monotone ==
    \A p \in DOMAIN log, q \in DOMAIN log :
        \A k \in DOMAIN log[p].inputs :
            (RecordInBounds(log[p]) /\ RaisedAt(log[p], log[q], k)) =>
                /\ FLe(log[p].sum, log[q].sum)
                /\ log[p].output = 1 => log[q].output = 1

C6_Witness ==
    /\ Len(log) = 2
    /\ RecordInBounds(log[1])
    /\ log[1].num_inputs = 2
    /\ RaisedAt(log[1], log[2], 1)
    /\ FLt(log[1].inputs[1], log[2].inputs[1])
    /\ FLt(log[1].sum, log[2].sum)
    /\ log[1].output = 1 /\ log[2].output = 1

\* C7: main calls perceptron once with inputs [0, 1], weights [0.5, -0.5], bias
\* 0.1 and count 2; the sum is -0.4 and the decision 0; after the call it prints
\* the one line "Perceptron Output: 0" and exits with code 0.
C7_MainRun ==
    driver = "main" =>
        /\ inputs = [k \in 0 .. 1 |-> IF k = 0 THEN FloatOf(0, 1) ELSE FloatOf(1, 1)]
        /\ weights = [k \in 0 .. 1 |-> IF k = 0 THEN FloatOf(1, 2) ELSE FloatOf(-1, 2)]
        /\ bias = FloatOf(1, 10)
        /\ num_inputs = 2
        /\ Len(log) = (IF Returned THEN 1 ELSE 0)
        /\ Returned => sum = FloatOf(-4, 10) /\ output = Value(0)
        /\ mpc \in {"line37", "line38"} => stdout = << >>
        /\ mpc = "line37" <=> ~Returned
        /\ mpc \in {"line40", "exited"} => stdout = << "Perceptron Output: 0" >>
        /\ mpc = "exited" => exitcode = Value(0) /\ Returned
        /\ mpc # "exited" => exitcode = NoValue

C7_Witness ==
    /\ driver = "main" /\ mpc = "exited" /\ exitcode = Value(0)
    /\ stdout = << "Perceptron Output: 0" >>

InCall == pc \in {"entry", "loop", "ret"}

SameArguments(r1, r2) ==
    /\ r1.inputs = r2.inputs /\ r1.weights = r2.weights
    /\ r1.bias = r2.bias /\ r1.num_inputs = r2.num_inputs

C9_TrustsCount ==
    /\ reads = UpTo(Len(reads))
    /\ Len(reads) <= MaxOf(num_inputs, 0)
    /\ pc \in {"ret", "done"} => reads = UpTo(MaxOf(num_inputs, 0))
    /\ oob <=> (\E n \in DOMAIN reads : ~InBounds(reads[n]))
    /\ pc \in {"ret", "done", "crashed"} => (~oob <=> num_inputs <= ShortestLength)
    /\ pc = "entry" => ENABLED PerceptronEnter
    /\ (pc = "loop" /\ i < ShortestLength) => ~oob

C9_Witness ==
    /\ num_inputs = 3 /\ Length(inputs) = 2 /\ Length(weights) = 2
    /\ Returned
    /\ oob
    /\ reads = << 0, 1, 2 >>

\* C10 as stated: for every integer num_inputs the call ends, with the loop body
\* run max(num_inputs, 0) times, on the indices in ascending order, and
\* step_function applied once to the final accumulator.
C10_EveryCount ==
    pc \in {"done", "crashed"} =>
        /\ Returned
        /\ reads = UpTo(MaxOf(num_inputs, 0))
        /\ applied = << sum >>

\* C10 amended: the same for every integer num_inputs that does not exceed the
\* length of either vector.
C10_CountInBounds ==
    /\ [](CountInBounds =>
            /\ pc # "crashed"
            /\ reads = UpTo(Len(reads))
            /\ pc = "loop" => i = Len(reads) /\ i <= MaxOf(num_inputs, 0)
            /\ pc \in {"entry", "loop"} => applied = << >>
            /\ pc \in {"ret", "done"} => reads = UpTo(MaxOf(num_inputs, 0))
            /\ Returned => applied = << sum >>)
    /\ [][(CountInBounds /\ pc = "loop" /\ pc' = "loop") => i' = i + 1]_vars
    /\ ((CountInBounds /\ pc = "entry") ~> Returned)

C10_Witness ==
    /\ num_inputs = -1 /\ Length(inputs) = 2 /\ Length(weights) = 2
    /\ Returned
    /\ reads = << >>
    /\ Len(log) = 2

=============================================================================
